---- MODULE Spec2Model ----
(***************************************************************************)
(* Head-meta injector, JSON-LD graph and sitemap/robots emitter of the     *)
(* DigestPaper publisher site (build-head.js).                             *)
(*                                                                         *)
(* Strings the code inspects character by character (locale specifiers,     *)
(* canonical URLs) are sequences of one-character strings.  HTML documents  *)
(* are sequences of tokens: each marker comment, tag or text run the        *)
(* injector's regular expressions can tell apart is one token.              *)
(***************************************************************************)
EXTENDS Integers, Sequences, FiniteSets, TLC

VARIABLES locMeta, locOut, locPc,     \* normalizeLanguage: input, result, position
          urlIn, urlOut, urlPc,       \* canonical rendering: input, result, position
          pgMeta, pgPages, pgTrace,   \* one page: descriptor, registry, file contents
                                      \* before the first and after each processPage
          pages,                      \* the registry (pages.json), loaded at start
          files,                      \* the HTML files under public/, by relative path
          sitemap, robots,            \* public/sitemap.xml and public/robots.txt
          pc, idx,                    \* position of the run, next registry index
          run,                        \* number of the current invocation (the clock)
          log,                        \* console output of the current invocation
          pagesJson,                  \* the registry file pages.json
          original,                   \* the HTML files as the run under way, or the
                                      \* interrupted one before it, found them
          recovering,                 \* the invocation before this one was interrupted
          callArg, callEnv,           \* one call of a function: arguments, what it
          callOut, callPc,            \* reads from outside, results, position
          theme,                      \* theme.js: dp_theme, data-theme, OS preference,
                                      \* the toggle button
          dropdowns,                  \* dropdown.js: per dropdown, aria-expanded and hidden
          auth                        \* authorize.js: AuthManager and the login button

locVars == <<locMeta, locOut, locPc>>
urlVars == <<urlIn, urlOut, urlPc>>
pgVars == <<pgMeta, pgPages, pgTrace>>
siteVars == <<pagesJson, pages, files, original, recovering, sitemap, robots, pc, idx,
             run, log>>
callVars == <<callArg, callEnv, callOut, callPc>>
uiVars == <<theme, dropdowns, auth>>
vars == <<locVars, urlVars, pgVars, siteVars, callVars, uiVars>>

(***************************************************************************)
(* Bounds of the model.                                                    *)
(***************************************************************************)
MaxLocaleLen == 5
MaxUrlLen == 4
MaxRuns == 2
MaxPages == 3

(***************************************************************************)
(* Character strings.                                                      *)
(***************************************************************************)
Strs(A, n) == UNION {[1..k -> A] : k \in 0..n}

RECURSIVE Flatten(_)
Flatten(ss) == IF ss = <<>> THEN <<>> ELSE Head(ss) \o Flatten(Tail(ss))

EndsWith(s, c) == Len(s) > 0 /\ s[Len(s)] = c

\* Index of the first element of s that lies in the set cs, 0 when none does.
FirstIn(s, cs) ==
  IF \E i \in 1..Len(s) : s[i] \in cs
  THEN CHOOSE i \in 1..Len(s) : s[i] \in cs /\ \A j \in 1..(i-1) : s[j] \notin cs
  ELSE 0

\* String.prototype.toLowerCase / toUpperCase on the letters of the model.
LowerChar(c) == CASE c = "N" -> "n" [] c = "E" -> "e" [] c = "U" -> "u"
                  [] c = "L" -> "l" [] c = "S" -> "s" [] c = "F" -> "f"
                  [] c = "R" -> "r" [] c = "C" -> "c" [] c = "A" -> "a"
                  [] OTHER -> c
UpperChar(c) == CASE c = "n" -> "N" [] c = "e" -> "E" [] c = "u" -> "U"
                  [] c = "l" -> "L" [] c = "s" -> "S" [] c = "f" -> "F"
                  [] c = "r" -> "R" [] c = "c" -> "C" [] c = "a" -> "A"
                  [] OTHER -> c
toLowerCase(s) == [i \in 1..Len(s) |-> LowerChar(s[i])]
toUpperCase(s) == [i \in 1..Len(s) |-> UpperChar(s[i])]

\* s.replace(a, b) with a one-character string pattern: only the FIRST
\* occurrence is replaced.
ReplaceFirstChar(s, a, b) ==
  LET i == FirstIn(s, {a}) IN IF i = 0 THEN s ELSE [s EXCEPT ![i] = b]

\* s.split(sep): the segments between the separators, empty ones included.
RECURSIVE SplitOn(_, _)
SplitOn(s, seps) ==
  LET i == FirstIn(s, seps) IN
  IF i = 0 THEN <<s>>
  ELSE <<SubSeq(s, 1, i - 1)>> \o SplitOn(SubSeq(s, i + 1, Len(s)), seps)

(***************************************************************************)
(* normalizeLanguage(meta).  An absent field and the empty string are both  *)
(* falsy for the || chain, so both are the empty sequence here.             *)
(***************************************************************************)
DefaultLocale == <<"n", "l", "-", "N", "L">>
DefaultLang == <<"n", "l">>
EnUS == <<"e", "n", "-", "U", "S">>

\* const raw = meta.language || meta.locale || meta.lang || "nl-NL"
rawLanguage(meta) ==
  IF meta.language # <<>> THEN meta.language
  ELSE IF meta.locale # <<>> THEN meta.locale
  ELSE IF meta.lang # <<>> THEN meta.lang
  ELSE DefaultLocale

\* Mutant of normalizeLanguage: the region is not upper-cased.
normalizeLanguage_RegionAsGiven(meta) ==
  LET parts == SplitOn(ReplaceFirstChar(rawLanguage(meta), "_", "-"), {"-"})
      lang == toLowerCase(IF parts[1] # <<>> THEN parts[1] ELSE DefaultLang)
  IN  [lang |-> lang,
       locale |-> IF Len(parts) >= 2 /\ parts[2] # <<>>
                  THEN lang \o <<"-">> \o parts[2]
                  ELSE IF lang = <<"e", "n">> THEN EnUS
                  ELSE lang \o <<"-">> \o toUpperCase(lang)]

normalizeLanguage(meta) ==
  LET parts == SplitOn(ReplaceFirstChar(rawLanguage(meta), "_", "-"), {"-"})
      lang == toLowerCase(IF parts[1] # <<>> THEN parts[1] ELSE DefaultLang)
  IN  [lang |-> lang,
       locale |-> IF Len(parts) >= 2 /\ parts[2] # <<>>
                  THEN lang \o <<"-">> \o toUpperCase(parts[2])
                  ELSE IF lang = <<"e", "n">> THEN EnUS
                  ELSE lang \o <<"-">> \o toUpperCase(lang)]

(***************************************************************************)
(* htmlEscape(s): the four replacements, in the code's order ('&' first).   *)
(***************************************************************************)
EscapeChar(c) == CASE c = "&" -> <<"&", "a", "m", "p", ";">>
                   [] c = "<" -> <<"&", "l", "t", ";">>
                   [] c = ">" -> <<"&", "g", "t", ";">>
                   [] c = "\"" -> <<"&", "q", "u", "o", "t", ";">>
                   [] OTHER -> <<c>>
htmlEscape(s) == Flatten([i \in 1..Len(s) |-> EscapeChar(s[i])])

(***************************************************************************)
(* ensureTrailingSlash(u).  The character "H" stands for a scheme and the   *)
(* start of a host ("https://h"): new URL(u) succeeds exactly when u starts *)
(* with it.  The host runs to the first of / ? #, the path to the first of  *)
(* ? #, the query to the first #; a special-scheme URL with an empty path   *)
(* has pathname "/".  toString() puts query and fragment after the path.    *)
(***************************************************************************)
UrlParses(u) == Len(u) > 0 /\ u[1] = "H"

UrlParts(u) ==
  LET pStart == FirstIn(u, {"/", "?", "#"})
      afterHost == IF pStart = 0 THEN <<>> ELSE SubSeq(u, pStart, Len(u))
      qStart == FirstIn(afterHost, {"?", "#"})
      path == IF qStart = 0 THEN afterHost ELSE SubSeq(afterHost, 1, qStart - 1)
  IN  [origin |-> IF pStart = 0 THEN u ELSE SubSeq(u, 1, pStart - 1),
       pathname |-> IF path = <<>> THEN <<"/">> ELSE path,
       rest |-> IF qStart = 0 THEN <<>> ELSE SubSeq(afterHost, qStart, Len(afterHost))]

ensureTrailingSlash(u) ==
  IF UrlParses(u)
  THEN LET url == UrlParts(u)
           pathname == IF EndsWith(url.pathname, "/") THEN url.pathname
                       ELSE url.pathname \o <<"/">>
       IN  url.origin \o pathname \o url.rest
  ELSE IF EndsWith(u, "/") THEN u ELSE u \o <<"/">>

\* const canonical = htmlEscape(ensureTrailingSlash(meta.canonical))
renderCanonical(u) == htmlEscape(ensureTrailingSlash(u))

(***************************************************************************)
(* HTML documents.  A token is [k |-> kind, p |-> attributes]; an attribute *)
(* is [name, q, val] with q the quoting ("dq", "sq", "none") and val a      *)
(* character string.  Kinds: "html" and "head" opening tags, "/head", the   *)
(* four marker comments "HB" "HE" "LDB" "LDE", "viewport" (a meta tag named *)
(* viewport), "NL" (a line break the code inserts), "text" (any other       *)
(* markup), and the pieces of the rendered blocks.  Text taken from a       *)
(* descriptor may hold the replacement patterns "$$" and "$&" of            *)
(* String.prototype.replace, each one token; "$" is a lone dollar sign.     *)
(***************************************************************************)
Tok(k) == [k |-> k, p |-> <<>>]
Attr(n, q, v) == [name |-> n, q |-> q, val |-> v]
Text(id) == [k |-> "text", p |-> <<Attr(id, "none", <<>>)>>]
HtmlTag(attrs) == [k |-> "html", p |-> attrs]

BeginHead == Tok("HB")
EndHead == Tok("HE")
BeginJsonLd == Tok("LDB")
EndJsonLd == Tok("LDE")
Viewport == Tok("viewport")
NL == Tok("NL")

includes(html, tok) == \E i \in 1..Len(html) : html[i] = tok

\* Index of the first token of kind k, 0 when there is none.
FirstKind(html, k) ==
  IF \E i \in 1..Len(html) : html[i].k = k
  THEN CHOOSE i \in 1..Len(html) : html[i].k = k /\ \A j \in 1..(i-1) : html[j].k # k
  ELSE 0

\* The match of /begin([\s\S]*?)end/: from the first begin marker to the
\* first end marker after it; from = 0 when the regex does not match.
MarkerMatch(html, begin, end) ==
  LET i == FirstIn(html, {begin})
      after == IF i = 0 THEN <<>> ELSE SubSeq(html, i + 1, Len(html))
      j == FirstIn(after, {end})
  IN  IF i = 0 \/ j = 0 THEN [from |-> 0, to |-> 0] ELSE [from |-> i, to |-> i + j]

\* The replacement string of String.prototype.replace, expanded: "$$" gives
\* a dollar sign and "$&" the matched text.
GetSubstitution(replacement, matched) ==
  Flatten([i \in 1..Len(replacement) |->
             IF replacement[i] = Tok("$$") THEN <<Tok("$")>>
             ELSE IF replacement[i] = Tok("$&") THEN matched
             ELSE <<replacement[i]>>])

Splice(html, from, to, new) ==
  SubSeq(html, 1, from - 1) \o new \o SubSeq(html, to + 1, Len(html))

\* Mutant of injectBetweenMarkers: a begin marker without its end marker
\* counts as no markers, and the block is inserted after the <head> tag.
injectBetweenMarkers_InsertOnDangling(html, beginMarker, endMarker, replacement) ==
  LET m == MarkerMatch(html, beginMarker, endMarker)
      h == FirstKind(html, "head")
  IN  IF m.from # 0
      THEN Splice(html, m.from, m.to,
                  GetSubstitution(replacement, SubSeq(html, m.from, m.to)))
      ELSE IF h = 0 THEN html
      ELSE Splice(html, h, h,
                  <<html[h], NL>> \o GetSubstitution(replacement, <<html[h]>>))

injectBetweenMarkers(html, beginMarker, endMarker, replacement) ==
  IF includes(html, beginMarker)
  THEN LET m == MarkerMatch(html, beginMarker, endMarker) IN
       IF m.from = 0 THEN html
       ELSE Splice(html, m.from, m.to,
                   GetSubstitution(replacement, SubSeq(html, m.from, m.to)))
  ELSE LET h == FirstKind(html, "head") IN
       IF h = 0 THEN html
       ELSE Splice(html, h, h,
                   <<html[h], NL>> \o GetSubstitution(replacement, <<html[h]>>))

(***************************************************************************)
(* ensureHtmlLang(html, lang).  \blang= matches at the end of the names in  *)
(* LangLike.  The replacing regex needs a quote right after the '=', and    *)
(* its greedy first group makes it take the LAST such attribute of the tag. *)
(***************************************************************************)
LangLike == {"lang", "xml:lang", "data-lang"}

HasLangAttr(tok) ==
  tok.k = "html" /\ \E i \in 1..Len(tok.p) : tok.p[i].name \in LangLike

QuotedLangAttrs(tok) ==
  {i \in 1..Len(tok.p) : tok.p[i].name \in LangLike /\ tok.p[i].q \in {"dq", "sq"}}

LastOf(S) == CHOOSE i \in S : \A j \in S : j <= i

ensureHtmlLang(html, lang) ==
  IF lang = <<>> THEN html
  ELSE IF \E t \in 1..Len(html) : HasLangAttr(html[t])
  THEN IF \E t \in 1..Len(html) : html[t].k = "html" /\ QuotedLangAttrs(html[t]) # {}
       THEN LET t == CHOOSE t \in 1..Len(html) :
                       /\ html[t].k = "html" /\ QuotedLangAttrs(html[t]) # {}
                       /\ \A u \in 1..(t-1) :
                            ~(html[u].k = "html" /\ QuotedLangAttrs(html[u]) # {})
                a == LastOf(QuotedLangAttrs(html[t]))
            IN  [html EXCEPT ![t].p[a].q = "dq", ![t].p[a].val = lang]
       ELSE html
  ELSE LET t == FirstKind(html, "html") IN
       IF t = 0 THEN html
       ELSE [html EXCEPT ![t].p = Append(@, Attr("lang", "dq", lang))]

(***************************************************************************)
(* Page descriptors.  A flag is "T" (true), "F" (false), "absent" or "str"  *)
(* (a truthy value that is not the boolean true, such as "true" or 1).      *)
(* title is descriptor text: a sequence of tokens.                          *)
(***************************************************************************)
\* A descriptor path: rel is the path without a leading slash, slash tells
\* whether it had one.  "/index.html" is the home page.
Path(slash, rel) == [slash |-> slash, rel |-> rel]
HomePath == Path(TRUE, "index.html")

\* relFromPublic: the path under public/, a leading slash removed.
relFromPublic(metaPath) == metaPath.rel

\* buildHead: the block between the HEAD POLICY markers.  The title stands
\* for every descriptor text interpolated into the block; "headmeta" for the
\* fixed-schema tags, which carry lang, locale and the canonical.
buildHead(meta, html) ==
  LET n == normalizeLanguage([language |-> meta.language, locale |-> <<>>,
                              lang |-> <<>>])
      hasViewport == \E i \in 1..Len(html) : html[i].k = "viewport"
      viewportLine == IF hasViewport THEN <<>> ELSE <<Viewport>>
  IN  [block |-> <<BeginHead>> \o meta.title
                 \o <<[k |-> "headmeta",
                       p |-> <<Attr("hreflang", "dq", n.lang),
                               Attr("content-language", "dq", n.locale),
                               Attr("canonical", "dq", renderCanonical(meta.canonical))>>]>>
                 \o viewportLine \o <<EndHead>>,
       lang |-> n.lang,
       locale |-> n.locale]

\* buildGraph: the @graph array, Organization, WebSite, then one WebPage node
\* per descriptor with inGraph !== false.  inGraph is "T" (true), "F" (false),
\* "absent" or "null" (any other value that is not the boolean false).
org == [type |-> "Organization", url |-> <<>>, name |-> <<>>, inLanguage |-> <<>>]
website == [type |-> "WebSite", url |-> <<>>, name |-> <<>>,
            inLanguage |-> <<"n", "l", "-", "N", "L">>]

WebPageNode(p) ==
  [type |-> "WebPage",
   url |-> ensureTrailingSlash(p.canonical),
   name |-> p.title,
   inLanguage |-> normalizeLanguage([language |-> p.language, locale |-> <<>>,
                                     lang |-> <<>>]).locale]

inGraphNotFalse(p) == p.inGraph # "F"
inGraphTruthy(p) == p.inGraph = "T"

\* Mutant of nodes: only descriptors whose inGraph is truthy are kept.
nodes_Truthy(reg) ==
  LET kept == SelectSeq(reg, inGraphTruthy)
  IN  [i \in 1..Len(kept) |-> WebPageNode(kept[i])]

\* pages.filter(p => p.inGraph !== false).map(...)
nodes(reg) ==
  LET kept == SelectSeq(reg, inGraphNotFalse)
  IN  [i \in 1..Len(kept) |-> WebPageNode(kept[i])]

buildGraph(reg) == <<org, website>> \o nodes(reg)

\* JSON.stringify(graph, null, 2): a WebPage node is one token for its fixed
\* keys followed by its (unescaped) title text.
stringifyNode(n) ==
  IF n.type = "WebPage"
  THEN <<[k |-> "WebPage",
          p |-> <<Attr("url", "dq", n.url),
                  Attr("inLanguage", "dq", n.inLanguage)>>]>> \o n.name
  ELSE <<Tok(n.type)>>

stringify(graph) == Flatten([i \in 1..Len(graph) |-> stringifyNode(graph[i])])

jsonLdBlock(reg) ==
  <<BeginJsonLd, Tok("script")>> \o stringify(buildGraph(reg))
    \o <<Tok("/script"), EndJsonLd>>

\* Mutant of wantsJsonLd: truthy flags count, not only the boolean true.
wantsJsonLd_Truthy(meta) ==
  meta.jsonldOnPage \in {"T", "str"} \/ meta.injectJsonLd \in {"T", "str"}
    \/ meta.path = HomePath

wantsJsonLd(meta) ==
  meta.jsonldOnPage = "T" \/ meta.injectJsonLd = "T" \/ meta.path = HomePath

\* The JSON-LD step of processPage: which of its three cases applies, and
\* the document it gives.
jsonLdCase(html) ==
  IF includes(html, BeginJsonLd) THEN "markers"
  ELSE IF FirstKind(html, "/head") # 0 THEN "beforeHeadClose"
  ELSE "append"

injectJsonLd(html, jsonLd) ==
  IF includes(html, BeginJsonLd)
  THEN LET m == MarkerMatch(html, BeginJsonLd, EndJsonLd) IN
       IF m.from = 0 THEN html
       ELSE Splice(html, m.from, m.to,
                   GetSubstitution(jsonLd, SubSeq(html, m.from, m.to)))
  ELSE LET c == FirstKind(html, "/head") IN
       IF c # 0
       THEN Splice(html, c, c,
                   GetSubstitution(jsonLd, <<html[c]>>) \o <<NL, html[c]>>)
       ELSE html \o <<NL>> \o jsonLd \o <<NL>>

\* The document after the lang and HEAD POLICY steps of processPage.
headInjected(meta, html) ==
  LET b == buildHead(meta, html)
      lang == IF b.lang # <<>> THEN b.lang ELSE DefaultLang
  IN  injectBetweenMarkers(ensureHtmlLang(html, lang), BeginHead, EndHead, b.block)

\* Mutant of processedHtml: a page that does not want JSON-LD has a block
\* that is already there taken out.
processedHtml_StripStale(meta, html, reg) ==
  LET h == headInjected(meta, html)
      m == MarkerMatch(h, BeginJsonLd, EndJsonLd)
  IN  IF wantsJsonLd(meta) THEN injectJsonLd(h, jsonLdBlock(reg))
      ELSE IF m.from = 0 THEN h
      ELSE Splice(h, m.from, m.to, <<>>)

\* The document processPage writes back for a file it could read.
processedHtml(meta, html, reg) ==
  IF wantsJsonLd(meta)
  THEN injectJsonLd(headInjected(meta, html), jsonLdBlock(reg))
  ELSE headInjected(meta, html)

(***************************************************************************)
(* Locale specifiers of the model: every string over a small alphabet up    *)
(* to MaxLocaleLen for `language`, and a few fixed ones for the fallbacks.  *)
(***************************************************************************)
LocaleAlphabet == {"e", "n", "N", "-", "_"}
LocaleStrings == Strs(LocaleAlphabet, MaxLocaleLen)
               \cup {<<"n", "l">>, <<"f", "r", "-", "C", "A">>}
FallbackStrings == {<<>>, <<"f", "r", "-", "C", "A">>, <<"e", "n">>}

\* Canonical values of the model: relative strings, and absolute URLs.
UrlAlphabet == {"a", "/", "?", "#"}
UrlStrings == LET R == Strs(UrlAlphabet, MaxUrlLen)
              IN  R \cup {<<"H">> \o r : r \in R}

IdleLocale == locMeta = <<>> /\ locOut = <<>> /\ locPc = "idle"
IdleUrl == urlIn = <<>> /\ urlOut = <<>> /\ urlPc = "idle"
IdlePage == pgMeta = <<>> /\ pgPages = <<>> /\ pgTrace = <<>>
IdleCall == callArg = <<>> /\ callEnv = <<>> /\ callOut = <<>> /\ callPc = "idle"
IdleUi == theme = <<>> /\ dropdowns = <<>> /\ auth = <<>>
IdleSite ==
  /\ pagesJson = <<>> /\ original = <<>> /\ recovering = FALSE
  /\ pages = <<>> /\ files = <<>> /\ sitemap = <<>> /\ robots = <<>>
  /\ pc = "idle" /\ idx = 0 /\ run = 0 /\ log = <<>>

InitLocale ==
  /\ locMeta \in [language : LocaleStrings, locale : FallbackStrings,
                  lang : FallbackStrings]
  /\ locOut = [lang |-> <<>>, locale |-> <<>>]
  /\ locPc = "start"
  /\ IdleUrl /\ IdlePage /\ IdleUi /\ IdleSite /\ IdleCall

Normalize ==
  /\ locPc = "start"
  /\ locOut' = normalizeLanguage(locMeta)
  /\ locPc' = "done"
  /\ UNCHANGED <<locMeta, urlVars, pgVars, uiVars, siteVars, callVars>>

NextLocale == Normalize

SpecLocale == InitLocale /\ [][NextLocale]_vars

InitUrl ==
  /\ urlIn \in UrlStrings
  /\ urlOut = <<>>
  /\ urlPc = "start"
  /\ IdleLocale /\ IdlePage /\ IdleUi /\ IdleSite /\ IdleCall

RenderCanonical ==
  /\ urlPc = "start"
  /\ urlOut' = renderCanonical(urlIn)
  /\ urlPc' = "done"
  /\ UNCHANGED <<urlIn, locVars, pgVars, uiVars, siteVars, callVars>>

NextUrl == RenderCanonical

SpecUrl == InitUrl /\ [][NextUrl]_vars

(***************************************************************************)
(* One page through repeated runs: the documents and descriptors of the     *)
(* model, and processPage on a file that exists and can be read.            *)
(***************************************************************************)
En == <<"e", "n">>
OldHead == Text("old-head")
OldGraph == Text("old-graph")

HtmlTags ==
  { <<>>,
    <<HtmlTag(<<>>)>>,
    <<HtmlTag(<<Attr("lang", "dq", En)>>)>>,
    <<HtmlTag(<<Attr("lang", "none", En)>>)>>,
    <<HtmlTag(<<Attr("class", "dq", <<"a">>), Attr("lang", "sq", En)>>)>>,
    <<HtmlTag(<<Attr("lang", "dq", En), Attr("xml:lang", "dq", En)>>)>> }

HeadContents ==
  { <<>>,
    <<Viewport>>,
    <<BeginHead, OldHead, EndHead>>,
    <<BeginHead, OldHead>>,
    <<BeginJsonLd, OldGraph, EndJsonLd>>,
    <<BeginJsonLd, OldGraph>>,
    <<BeginHead, OldHead, Viewport, EndHead, BeginJsonLd, OldGraph, EndJsonLd>> }

HeadRegions ==
  UNION { { <<Tok("head")>> \o c \o <<Tok("/head")>>,
            <<Tok("head")>> \o c,
            c } : c \in HeadContents }

Documents == { t \o h \o <<Text("body")>> : t \in HtmlTags, h \in HeadRegions }

Titles == { <<Text("title")>>,
            <<Text("title"), Tok("$$")>>,
            <<Text("title"), Tok("$&")>> }

PageMetas ==
  [path : {HomePath, Path(FALSE, "index.html"), Path(TRUE, "a.html")},
   title : Titles,
   language : {<<>>, En},
   canonical : {<<"H", "/", "a">>},
   jsonldOnPage : {"T", "F", "absent", "str"},
   injectJsonLd : {"T", "absent", "str"},
   inGraph : {"absent"}]

InitPage ==
  /\ pgMeta \in PageMetas
  /\ pgPages = <<pgMeta>>
  /\ pgTrace \in {<<d>> : d \in Documents}
  /\ IdleLocale /\ IdleUrl /\ IdleSite /\ IdleCall /\ IdleUi

\* processPage(meta) where the file exists and is read: the mutated document
\* is written back over it.
ProcessPage ==
  /\ pgTrace # <<>>
  /\ Len(pgTrace) <= MaxRuns
  /\ pgTrace' = Append(pgTrace, processedHtml(pgMeta, pgTrace[Len(pgTrace)], pgPages))
  /\ UNCHANGED <<pgMeta, pgPages, locVars, urlVars, siteVars, callVars, uiVars>>

NextPage == ProcessPage

SpecPage == InitPage /\ [][NextPage]_vars

(***************************************************************************)
(* The whole run: pages.forEach(processPage); buildSitemap(pages);          *)
(* ensureRobots().  A file is [st, html, mtime] with st "ok", "absent" or   *)
(* "unreadable" (it exists, readFileSync throws); mtime is the number of    *)
(* the invocation that wrote it last, 0 for a file never written.           *)
(***************************************************************************)
FileNames == {"index.html", "a.html", "b.html"}

AbsentFile == [st |-> "absent", html |-> <<>>, mtime |-> 0]
UnreadableFile == [st |-> "unreadable", html |-> <<>>, mtime |-> 0]
HtmlFile(d) == [st |-> "ok", html |-> d, mtime |-> 0]

PlainDocument == <<HtmlTag(<<>>), Tok("head"), Tok("/head"), Text("body")>>
MarkedDocument ==
  <<HtmlTag(<<Attr("lang", "dq", En)>>), Tok("head"), Viewport,
    BeginHead, OldHead, EndHead, Tok("/head"), Text("body")>>

InitialFiles(f) ==
  CASE f = "index.html" -> {AbsentFile, HtmlFile(PlainDocument), HtmlFile(MarkedDocument)}
    [] f = "a.html" -> {AbsentFile, UnreadableFile, HtmlFile(PlainDocument),
                        HtmlFile(MarkedDocument)}
    [] OTHER -> {AbsentFile, HtmlFile(PlainDocument)}

\* p.priority.toFixed(1) for a number given in tenths.
Digits == <<"0", "1", "2", "3", "4", "5", "6", "7", "8", "9">>
toFixed1(n) == <<Digits[(n \div 10) + 1], ".", Digits[(n % 10) + 1]>>

\* A descriptor's priority: absent, a number (n tenths), or a string that
\* spells that number.  Its changefreq: "absent", "" or a frequency.
AbsentPriority == [t |-> "absent", n |-> 0]
NumberPriority(n) == [t |-> "number", n |-> n]
StringPriority(n) == [t |-> "string", n |-> n]

\* A canonical that is missing from the descriptor (or is no string).
Undefined == <<"undefined">>

CanonicalOf(rel) ==
  CASE rel = "index.html" -> <<"H", "/">>
    [] rel = "a.html" -> <<"H", "/", "a">>
    [] OTHER -> <<"H", "/", "b", "/">>

SiteMeta(f, j) ==
  [path |-> Path(TRUE, f), title |-> <<Text(f)>>, language |-> <<>>,
   canonical |-> CanonicalOf(f), jsonldOnPage |-> j, injectJsonLd |-> "absent",
   inGraph |-> "absent", priority |-> AbsentPriority, changefreq |-> "absent"]

SiteMetas ==
  { SiteMeta("index.html", "absent"), SiteMeta("a.html", "T"),
    SiteMeta("a.html", "absent"), SiteMeta("b.html", "absent") }

Registries == UNION {[1..n -> SiteMetas] : n \in 1..MaxPages}

AbsentRobots == [st |-> "absent", body |-> ""]
CustomRobots == [st |-> "present", body |-> "custom"]
\* User-agent: * / Allow: / / Sitemap: <SITE_BASE>sitemap.xml
FixedRobots == [st |-> "present", body |-> "fixed"]

\* sitemap.xml: its <url> entries and the invocation that wrote it.
NoSitemap == [st |-> "absent", urls |-> <<>>, written |-> 0]

\* pages.json as a file: "valid" with the registry it holds, "absent", or
\* "invalid" (not JSON).
ValidJson(reg) == [st |-> "valid", content |-> reg]
AbsentJson == [st |-> "absent", content |-> <<>>]
InvalidJson == [st |-> "invalid", content |-> <<>>]

InitFiles ==
  /\ files \in {fs \in [FileNames -> {AbsentFile, UnreadableFile, HtmlFile(PlainDocument),
                                       HtmlFile(MarkedDocument)}] :
                  \A f \in FileNames : fs[f] \in InitialFiles(f)}
  /\ original = files
  /\ recovering = FALSE
  /\ sitemap = NoSitemap
  /\ robots \in {AbsentRobots, CustomRobots}

InitRun ==
  /\ pages = <<>>
  /\ pc = "load" /\ idx = 1 /\ run = 1 /\ log = <<>>
  /\ IdleLocale /\ IdleUrl /\ IdlePage /\ IdleUi /\ IdleCall

Init ==
  /\ pagesJson \in {ValidJson(reg) : reg \in Registries} \cup {AbsentJson, InvalidJson}
  /\ InitFiles
  /\ InitRun

\* Mutant of LoadRegistry: a registry that cannot be loaded counts as empty.
LoadRegistry_EmptyOnError ==
  /\ pc = "load"
  /\ pages' = pagesJson.content
  /\ pc' = "pages"
  /\ UNCHANGED <<pagesJson, files, original, recovering, sitemap, robots, idx, run, log,
                 locVars, urlVars, pgVars, uiVars, callVars>>

\* const pages = JSON.parse(fs.readFileSync(...)): the first statement that
\* does anything; readFileSync or JSON.parse throwing ends the process.
LoadRegistry ==
  /\ pc = "load"
  /\ IF pagesJson.st = "valid"
     THEN pages' = pagesJson.content /\ pc' = "pages" /\ UNCHANGED log
     ELSE /\ pc' = "aborted"
          /\ log' = Append(log, [ev |-> "uncaught", path |-> HomePath])
          /\ UNCHANGED pages
  /\ UNCHANGED <<pagesJson, files, original, recovering, sitemap, robots, idx, run,
                 locVars, urlVars, pgVars, uiVars, callVars>>

\* ensureTrailingSlash(u) for a canonical that is no string: new URL throws,
\* and u.endsWith in the catch block throws a TypeError nothing catches.
ensureTrailingSlashThrows(u) == u = Undefined

\* processPage past its two early returns: buildHead renders the canonical of
\* the page, buildGraph that of every descriptor it keeps.
processPageThrows(meta, reg) ==
  \/ ensureTrailingSlashThrows(meta.canonical)
  \/ /\ wantsJsonLd(meta)
     /\ \E i \in 1..Len(reg) :
          inGraphNotFalse(reg[i]) /\ ensureTrailingSlashThrows(reg[i].canonical)

buildSitemapThrows(items) ==
  \E i \in 1..Len(items) : ensureTrailingSlashThrows(items[i].canonical)

\* Mutant of RunProcessPage: a file that is missing is created from the
\* empty document.
RunProcessPage_CreateMissing ==
  /\ pc = "pages" /\ idx <= Len(pages)
  /\ LET meta == pages[idx]
         rel == relFromPublic(meta.path)
     IN  IF files[rel].st = "unreadable"
         THEN /\ log' = Append(log, [ev |-> "warn-unreadable", path |-> meta.path])
              /\ idx' = idx + 1
              /\ UNCHANGED <<files, pc>>
         ELSE /\ files' = [files EXCEPT ![rel] =
                             [st |-> "ok",
                              html |-> processedHtml(meta, files[rel].html, pages),
                              mtime |-> run]]
              /\ log' = Append(log, [ev |-> "injected", path |-> meta.path])
              /\ idx' = idx + 1
              /\ UNCHANGED pc
  /\ UNCHANGED <<pagesJson, pages, original, recovering, sitemap, robots, run,
                 locVars, urlVars, pgVars, uiVars, callVars>>

\* processPage(pages[idx]) as forEach calls it, then on to the next index.
RunProcessPage ==
  /\ pc = "pages" /\ idx <= Len(pages)
  /\ LET meta == pages[idx]
         rel == relFromPublic(meta.path)
     IN  IF files[rel].st = "absent"
         THEN /\ log' = Append(log, [ev |-> "warn-not-found", path |-> meta.path])
              /\ idx' = idx + 1
              /\ UNCHANGED <<files, pc>>
         ELSE IF files[rel].st = "unreadable"
         THEN /\ log' = Append(log, [ev |-> "warn-unreadable", path |-> meta.path])
              /\ idx' = idx + 1
              /\ UNCHANGED <<files, pc>>
         ELSE IF processPageThrows(meta, pages)
         THEN /\ log' = Append(log, [ev |-> "uncaught", path |-> meta.path])
              /\ pc' = "crashed"
              /\ UNCHANGED <<files, idx>>
         ELSE /\ files' = [files EXCEPT ![rel] =
                             [st |-> "ok",
                              html |-> processedHtml(meta, files[rel].html, pages),
                              mtime |-> run]]
              /\ log' = Append(log, [ev |-> "injected", path |-> meta.path])
              /\ idx' = idx + 1
              /\ UNCHANGED pc
  /\ UNCHANGED <<pagesJson, pages, original, recovering, sitemap, robots, run,
                 locVars, urlVars, pgVars, uiVars, callVars>>

\* Mutant of sitemapEntry: a priority of any type is used when present.
sitemapEntry_AnyPriority(pg, fs, now) ==
  LET f == fs[relFromPublic(pg.path)] IN
  [loc |-> ensureTrailingSlash(pg.canonical),
   lastmod |-> IF f.st = "absent" THEN now ELSE f.mtime,
   changefreq |-> IF pg.changefreq \notin {"absent", ""} THEN pg.changefreq
                  ELSE IF pg.path = HomePath THEN "weekly" ELSE "monthly",
   priority |-> IF pg.priority.t # "absent" THEN toFixed1(pg.priority.n)
                ELSE IF pg.path = HomePath THEN <<"1", ".", "0">>
                ELSE <<"0", ".", "8">>]

\* One <url> entry of buildSitemap.
sitemapEntry(pg, fs, now) ==
  LET f == fs[relFromPublic(pg.path)] IN
  [loc |-> ensureTrailingSlash(pg.canonical),
   lastmod |-> IF f.st = "absent" THEN now ELSE f.mtime,
   changefreq |-> IF pg.changefreq \notin {"absent", ""} THEN pg.changefreq
                  ELSE IF pg.path = HomePath THEN "weekly" ELSE "monthly",
   priority |-> IF pg.priority.t = "number" THEN toFixed1(pg.priority.n)
                ELSE IF pg.path = HomePath THEN <<"1", ".", "0">>
                ELSE <<"0", ".", "8">>]

\* Mutant of sitemapUrls: descriptors whose file is missing get no entry.
sitemapUrls_ExistingOnly(items, fs, now) ==
  LET keep == {i \in 1..Len(items) : fs[relFromPublic(items[i].path)].st = "ok"}
      F[i \in 0..Len(items)] ==
        IF i = 0 THEN <<>>
        ELSE IF i \in keep THEN Append(F[i-1], sitemapEntry(items[i], fs, now))
        ELSE F[i-1]
  IN  F[Len(items)]

\* Mutant of sitemapUrls: a descriptor equal to an earlier one gets no entry.
sitemapUrls_Unique(items, fs, now) ==
  LET first == {i \in 1..Len(items) : \A j \in 1..(i - 1) : items[j] # items[i]}
      F[i \in 0..Len(items)] ==
        IF i = 0 THEN <<>>
        ELSE IF i \in first THEN Append(F[i-1], sitemapEntry(items[i], fs, now))
        ELSE F[i-1]
  IN  F[Len(items)]

\* items.map(...): one entry per descriptor, in registry order.
sitemapUrls(items, fs, now) ==
  [i \in 1..Len(items) |-> sitemapEntry(items[i], fs, now)]

\* Mutant of BuildSitemap: the sitemap does not wait for the last page.
BuildSitemap_Early ==
  /\ pc = "pages"
  /\ sitemap' = [st |-> "present", urls |-> sitemapUrls(pages, files, run),
                  written |-> run]
  /\ log' = Append(log, [ev |-> "sitemap", path |-> HomePath])
  /\ pc' = "robots"
  /\ UNCHANGED <<pagesJson, pages, files, original, recovering, robots, idx, run,
                 locVars, urlVars, pgVars, uiVars, callVars>>

\* buildSitemap(pages), once forEach has gone through the registry.
BuildSitemap ==
  /\ pc = "pages" /\ idx > Len(pages)
  /\ IF buildSitemapThrows(pages)
     THEN /\ log' = Append(log, [ev |-> "uncaught", path |-> HomePath])
          /\ pc' = "crashed"
          /\ UNCHANGED sitemap
     ELSE /\ sitemap' = [st |-> "present", urls |-> sitemapUrls(pages, files, run),
                         written |-> run]
          /\ log' = Append(log, [ev |-> "sitemap", path |-> HomePath])
          /\ pc' = "robots"
  /\ UNCHANGED <<pagesJson, pages, files, original, recovering, robots, idx, run,
                 locVars, urlVars, pgVars, uiVars, callVars>>

\* Mutant of EnsureRobots: robots.txt is written whether it exists or not.
EnsureRobots_Overwrite ==
  /\ pc = "robots"
  /\ robots' = FixedRobots
  /\ log' = Append(log, [ev |-> "robots", path |-> HomePath])
  /\ pc' = "done"
  /\ UNCHANGED <<pagesJson, pages, files, original, recovering, sitemap, idx, run,
                 locVars, urlVars, pgVars, uiVars, callVars>>

\* ensureRobots()
EnsureRobots ==
  /\ pc = "robots"
  /\ IF robots.st = "absent"
     THEN /\ robots' = FixedRobots
          /\ log' = Append(log, [ev |-> "robots", path |-> HomePath])
     ELSE UNCHANGED <<robots, log>>
  /\ pc' = "done"
  /\ UNCHANGED <<pagesJson, pages, files, original, recovering, sitemap, idx, run,
                 locVars, urlVars, pgVars, uiVars, callVars>>

\* The pipeline is invoked again, after a complete run or an interrupted
\* one: a new process, which loads pages.json anew; the registry file is as
\* it was, or was broken by an edit in between.  `original` keeps the files
\* as they were before the interrupted run.
Rerun ==
  /\ pc \in {"done", "interrupted"} /\ run < MaxRuns
  /\ pc' = "load" /\ idx' = 1 /\ run' = run + 1 /\ log' = <<>>
  /\ pages' = <<>>
  /\ pagesJson' \in {pagesJson, InvalidJson}
  /\ recovering' = (pc = "interrupted")
  /\ original' = IF pc = "interrupted" THEN original ELSE files
  /\ UNCHANGED <<files, sitemap, robots, locVars, urlVars, pgVars, uiVars, callVars>>

\* The process is killed between two pages, or after the last one and
\* before the sitemap.
Interrupt ==
  /\ pc = "pages" /\ ~ recovering
  /\ pc' = "interrupted"
  /\ UNCHANGED <<pagesJson, pages, files, original, recovering, sitemap, robots, idx, run,
                 log, locVars, urlVars, pgVars, uiVars, callVars>>

Next == LoadRegistry \/ RunProcessPage \/ BuildSitemap \/ EnsureRobots \/ Rerun

Spec == Init /\ [][Next]_vars

(***************************************************************************)
(* Claims about processPage on one page.                                    *)
(***************************************************************************)
Contains(s, t) ==
  \E i \in 0..(Len(s) - Len(t)) : SubSeq(s, i + 1, i + Len(t)) = t

PlainTitle == <<Text("title")>>

\* The markers are paired (the first begin marker has an end marker after
\* it) or there is no begin marker at all.
PairedOrNone(html, begin, end) ==
  ~includes(html, begin) \/ MarkerMatch(html, begin, end).from # 0

\* C1 (as claimed): a second processPage on the same file with the same
\* descriptor and registry leaves the file as the first one left it.  Stated
\* here for descriptors whose text holds no replacement pattern.
C1_Original ==
  (Len(pgTrace) >= 3 /\ pgMeta.title = PlainTitle) => pgTrace[3] = pgTrace[2]

\* The rule of the claim, in its own words.
InclusionRule(meta) ==
  meta.jsonldOnPage = "T" \/ meta.injectJsonLd = "T" \/ meta.path = Path(TRUE, "index.html")

GraphPresent(html) == includes(html, Tok("Organization"))

C5_Original ==
  (Len(pgTrace) >= 2
     /\ \/ MarkerMatch(pgTrace[1], BeginHead, EndHead).from # 0
        \/ (~includes(pgTrace[1], BeginHead) /\ FirstKind(pgTrace[1], "head") # 0))
  => Contains(pgTrace[2], buildHead(pgMeta, pgTrace[1]).block)

\* C6 (as claimed): for a page that wants JSON-LD, exactly the newly built
\* block is present after processPage.  Stated here for documents whose
\* JSON-LD markers are paired or absent.
C6_Original ==
  (Len(pgTrace) >= 2 /\ InclusionRule(pgMeta)
     /\ PairedOrNone(pgTrace[1], BeginJsonLd, EndJsonLd))
  => Contains(pgTrace[2], jsonLdBlock(pgPages))

\* The attributes of the first <html> tag of a document.
HtmlAttrs(html) == html[FirstKind(html, "html")].p
IsLang(a) == a.name = "lang"
NotLang(a) == a.name # "lang"

\* C7 (as claimed): after processPage the <html> tag has a lang attribute
\* whose value is the normalized lang, whatever the value or quoting it had
\* before, and no other attribute of the tag is changed.
C7_Original ==
  (Len(pgTrace) >= 2 /\ FirstKind(pgTrace[1], "html") # 0) =>
    LET before == HtmlAttrs(pgTrace[1])
        after == HtmlAttrs(pgTrace[2])
        lang == normalizeLanguage([language |-> pgMeta.language, locale |-> <<>>,
                                   lang |-> <<>>]).lang
    IN  /\ SelectSeq(after, IsLang) # <<>>
        /\ \A i \in 1..Len(SelectSeq(after, IsLang)) :
             SelectSeq(after, IsLang)[i].val = lang
        /\ SelectSeq(after, NotLang) = SelectSeq(before, NotLang)

(***************************************************************************)
(* Claims about the whole run.                                              *)
(***************************************************************************)
\* C2: a descriptor whose file is missing or unreadable is skipped with a
\* warning and its file is left as it was; every descriptor whose file can
\* be read is processed and written in this run; the sitemap emitted after
\* the pages holds one entry per descriptor, the skipped ones included.
C2_Isolation ==
  /\ pc \in {"pages", "robots", "done"} =>
       \A i \in 1..(IF pc = "pages" THEN idx - 1 ELSE Len(pages)) :
         LET f == files[relFromPublic(pages[i].path)] IN
         /\ i <= Len(log) /\ log[i].path = pages[i].path
         /\ f.st = "absent" => (log[i].ev = "warn-not-found" /\ f = AbsentFile)
         /\ f.st = "unreadable" => (log[i].ev = "warn-unreadable" /\ f = UnreadableFile)
         /\ f.st = "ok" => (log[i].ev = "injected" /\ f.mtime = run
                              /\ includes(f.html, BeginHead))
  /\ pc \in {"robots", "done"} =>
       /\ sitemap.st = "present"
       /\ Len(sitemap.urls) = Len(pages)
       /\ \A i \in 1..Len(pages) :
            sitemap.urls[i].loc = ensureTrailingSlash(pages[i].canonical)

\* A run over three descriptors has ended; the file of the second is
\* missing, those of the first and the third were written.
C2_Witness ==
  /\ pc = "done" /\ Len(pages) = 3
  /\ files[relFromPublic(pages[2].path)].st = "absent"
  /\ files[relFromPublic(pages[1].path)].mtime = run
  /\ files[relFromPublic(pages[3].path)].mtime = run
  /\ Len(sitemap.urls) = 3

\* C3: a robots.txt that exists is never changed by any step of any run, and
\* a run that finds none ends with the fixed body written.
C3_NonDestructive ==
  [][/\ robots.st = "present" => robots' = robots
     /\ (robots.st = "absent" /\ pc' = "done" /\ pc = "robots") => robots' = FixedRobots
     /\ pc' = "done" => robots'.st = "present"]_vars

\* A second run has ended and robots.txt still holds its custom content.
C3_Witness == pc = "done" /\ run = 2 /\ robots = CustomRobots

(***************************************************************************)
(* Claims about normalizeLanguage.                                          *)
(***************************************************************************)
Separators == {"-", "_"}
LowerLetters == {"e", "n", "l", "f", "r", "u", "s"}
UpperLetters == {"E", "N", "L", "F", "R", "U", "S", "C", "A"}
NoLowerLetter(s) == toUpperCase(s) = s
NoUpperLetter(s) == toLowerCase(s) = s

\* The normalization as the claim words it: split on '-' or '_'.
ClaimNormalize(meta) ==
  LET parts == SplitOn(rawLanguage(meta), Separators)
      lang == toLowerCase(parts[1])
  IN  [lang |-> lang,
       locale |-> IF Len(parts) >= 2 /\ parts[2] # <<>>
                  THEN lang \o <<"-">> \o toUpperCase(parts[2])
                  ELSE IF lang = <<"e", "n">> THEN EnUS
                  ELSE lang \o <<"-">> \o toUpperCase(lang)]

\* C8 (as claimed): normalizeLanguage splits the first present value on '-'
\* or '_', lower-cases the first segment into lang and builds locale from
\* the second segment.  Stated here only for specifiers whose segments are
\* all non-empty, where the claim's wording leaves no doubt.
C8_Original ==
  (locPc = "done"
     /\ \A i \in DOMAIN SplitOn(rawLanguage(locMeta), Separators) :
          SplitOn(rawLanguage(locMeta), Separators)[i] # <<>>)
  => locOut = ClaimNormalize(locMeta)

\* C9 (as claimed): the returned lang is a 2-letter lower-case code and the
\* returned locale is lang, one hyphen and an upper-case region.
C9_Original ==
  locPc = "done" =>
    /\ Len(locOut.lang) = 2
    /\ \A i \in 1..Len(locOut.lang) : locOut.lang[i] \in LowerLetters
    /\ Len(locOut.locale) > 3
    /\ SubSeq(locOut.locale, 1, 3) = locOut.lang \o <<"-">>
    /\ \A i \in 4..Len(locOut.locale) : locOut.locale[i] \in UpperLetters

\* C9 (amended): lang is the lower-cased first segment, of whatever length
\* (nl when that segment is empty): non-empty, without upper-case letter and
\* without '-' or '_'; locale is lang, one hyphen and a non-empty region
\* without lower-case letter or hyphen (an underscore after the first one of
\* the input stays in the region).
C9_Shape ==
  locPc = "done" =>
    LET lang == locOut.lang
        first == SplitOn(rawLanguage(locMeta), Separators)[1]
        region == SubSeq(locOut.locale, Len(lang) + 2, Len(locOut.locale))
    IN  /\ lang # <<>>
        /\ NoUpperLetter(lang)
        /\ \A i \in 1..Len(lang) : lang[i] \notin Separators
        /\ first # <<>> => lang = toLowerCase(first)
        /\ first = <<>> => lang = DefaultLang
        /\ Len(locOut.locale) > Len(lang) + 1
        /\ SubSeq(locOut.locale, 1, Len(lang) + 1) = lang \o <<"-">>
        /\ region # <<>>
        /\ NoLowerLetter(region)
        /\ \A i \in 1..Len(region) : region[i] # "-"

\* A specifier of three segments with a one-letter first segment was
\* normalized.
C9_Witness ==
  /\ locPc = "done"
  /\ Len(SplitOn(rawLanguage(locMeta), Separators)) >= 3
  /\ Len(locOut.lang) = 1
  /\ \E i \in 1..Len(locOut.locale) : locOut.locale[i] = "_"

(***************************************************************************)
(* Claims about the canonical URL.                                          *)
(***************************************************************************)
PathOf(s) ==
  LET q == FirstIn(s, {"?", "#"}) IN IF q = 0 THEN s ELSE SubSeq(s, 1, q - 1)

\* C10 (as claimed): for every canonical input, parseable as an absolute URL
\* or not, the rendered canonical has a path ending in '/' before any query
\* or fragment.
C10_Original == urlPc = "done" => EndsWith(PathOf(urlOut), "/")

(***************************************************************************)
(* The head block character by character: the values buildHead puts        *)
(* between the double quotes of its tags.  title stands for every field    *)
(* that goes through htmlEscape alone (description, keywords, robots,      *)
(* referrer, theme colour, images, twitter and geo fields).                *)
(***************************************************************************)
MaxTextLen == 3

HeadValue(name, from, val) == [name |-> name, from |-> from, val |-> val]

headValues(meta) ==
  LET n == normalizeLanguage([language |-> meta.language, locale |-> <<>>,
                              lang |-> <<>>])
      title == htmlEscape(meta.title)
      canonical == renderCanonical(meta.canonical)
  IN  << HeadValue("title", "title", title),
         HeadValue("canonical", "canonical", canonical),
         HeadValue("hreflang", "language", n.lang),
         HeadValue("content-language", "language", n.locale),
         HeadValue("DC.title", "title", title),
         HeadValue("DC.language", "language", n.locale),
         HeadValue("og:title", "title", title),
         HeadValue("og:locale", "language", ReplaceFirstChar(n.locale, "-", "_")),
         HeadValue("og:url", "canonical", canonical) >>

TextAlphabet == {"a", "&", "<", ">", "\""}
TextStrings == Strs(TextAlphabet, MaxTextLen)
Script == <<"<", "s", "c", "r", "i", "p", "t", ">">>
HeadLanguages == {<<>>, En, <<"e", "n", "-", "U", "S">>, <<"<">>, <<"\"", ">">>,
                  <<"e", "n", "-", "&">>}
HeadCanonicals == {<<"H", "/", "a">>, <<"H", "?", "a", "&", "a">>, <<"a", "\"">>}

HeadMetas == [title : TextStrings \cup {Script}, language : HeadLanguages,
              canonical : HeadCanonicals]

InitHead ==
  /\ callArg \in HeadMetas
  /\ callEnv = <<>>
  /\ callOut = <<>>
  /\ callPc = "buildHead"
  /\ IdleLocale /\ IdleUrl /\ IdlePage /\ IdleUi /\ IdleSite

BuildHead ==
  /\ callPc = "buildHead"
  /\ callOut' = headValues(callArg)
  /\ callPc' = "returned"
  /\ UNCHANGED <<callArg, callEnv, locVars, urlVars, pgVars, uiVars, siteVars>>

NextHead == BuildHead

SpecHead == InitHead /\ [][NextHead]_vars

RawMarkup == {"<", ">", "\""}

\* C11: no value of the descriptor, the values derived from its language
\* among them, puts a raw '<', '>' or '"' into the rendered head block.
C11_Original ==
  callPc = "returned" =>
    \A i \in 1..Len(callOut) : ~ \E j \in 1..Len(callOut[i].val) :
        callOut[i].val[j] \in RawMarkup

(***************************************************************************)
(* buildGraph on registries whose descriptors differ in inGraph.           *)
(***************************************************************************)
InGraphValues == {"T", "F", "absent", "null"}

GraphMeta(f, l, g) ==
  [path |-> Path(TRUE, f), title |-> <<Text(f)>>, language |-> l,
   canonical |-> CanonicalOf(f), jsonldOnPage |-> "absent",
   injectJsonLd |-> "absent", inGraph |-> g]

GraphMetas == {GraphMeta(f, <<>>, g) : f \in {"a.html", "b.html"}, g \in InGraphValues}
              \cup {GraphMeta("index.html", En, "absent")}

GraphRegistries == UNION {[1..n -> GraphMetas] : n \in 0..MaxPages}

InitGraph ==
  /\ callArg \in GraphRegistries
  /\ callEnv = <<>>
  /\ callOut = <<>>
  /\ callPc = "buildGraph"
  /\ IdleLocale /\ IdleUrl /\ IdlePage /\ IdleUi /\ IdleSite

BuildGraph ==
  /\ callPc = "buildGraph"
  /\ callOut' = buildGraph(callArg)
  /\ callPc' = "returned"
  /\ UNCHANGED <<callArg, callEnv, locVars, urlVars, pgVars, uiVars, siteVars>>

NextGraph == BuildGraph

SpecGraph == InitGraph /\ [][NextGraph]_vars

\* The registry indices whose descriptor has inGraph other than false, and
\* the number of them that are at most i.
InGraphIndices(reg) == {i \in 1..Len(reg) : reg[i].inGraph # "F"}
RankIn(S, i) == Cardinality({j \in S : j <= i})

\* C12: the @graph array is Organization, WebSite, then exactly one WebPage
\* node per descriptor whose inGraph is not false, in registry order; its
\* length is 2 plus the number of such descriptors.
C12_GraphStructure ==
  callPc = "returned" =>
    LET K == InGraphIndices(callArg) IN
    /\ Len(callOut) = 2 + Cardinality(K)
    /\ callOut[1].type = "Organization"
    /\ callOut[2].type = "WebSite"
    /\ \A i \in K :
         LET n == callOut[2 + RankIn(K, i)] IN
         /\ n.type = "WebPage"
         /\ n.url = ensureTrailingSlash(callArg[i].canonical)
         /\ n.name = callArg[i].title
    /\ (Len(callArg) = 3 /\ (\A i \in 1..3 : callArg[i].inGraph = "absent"))
         => Len(callOut) = 5

\* Three descriptors, the middle one with inGraph false, the others unset
\* and null, of different pages: a graph of four nodes.
C12_Witness ==
  /\ callPc = "returned"
  /\ Len(callArg) = 3
  /\ callArg[1].inGraph = "absent" /\ callArg[2].inGraph = "F"
  /\ callArg[3].inGraph = "null"
  /\ callArg[1].path # callArg[3].path
  /\ Len(callOut) = 4

\* C13: every run that gets to the sitemap rewrites sitemap.xml with one
\* <url> entry per registry descriptor, in registry order: as many entries
\* as descriptors, equal descriptors giving equal entries, and a descriptor
\* whose file is missing or was skipped having its entry too.
C13_SitemapEmission ==
  pc \in {"robots", "done"} =>
    /\ sitemap.st = "present"
    /\ sitemap.written = run
    /\ Len(sitemap.urls) = Len(pages)
    /\ \A i \in 1..Len(pages) :
         /\ sitemap.urls[i].loc = ensureTrailingSlash(pages[i].canonical)
         /\ \A j \in 1..Len(pages) :
              pages[i] = pages[j] => sitemap.urls[i] = sitemap.urls[j]

\* The second run of a registry that names one page twice, around a page
\* whose file is missing.
C13_Witness ==
  /\ pc = "done" /\ run = 2 /\ Len(pages) = 3
  /\ pages[1] = pages[3] /\ pages[2] # pages[1]
  /\ files[relFromPublic(pages[2].path)].st = "absent"
  /\ files[relFromPublic(pages[1].path)].st = "ok"
  /\ sitemap.written = 2
  /\ Len(sitemap.urls) = 3
  /\ sitemap.urls[1] = sitemap.urls[3]
  /\ sitemap.urls[2].loc = ensureTrailingSlash(pages[2].canonical)

(***************************************************************************)
(* One entry of buildSitemap, for descriptors that differ in path,         *)
(* priority and changefreq.                                                *)
(***************************************************************************)
PriorityTenths == 0..10
Priorities == {AbsentPriority} \cup {NumberPriority(n) : n \in PriorityTenths}
              \cup {StringPriority(n) : n \in PriorityTenths}
Changefreqs == {"absent", "", "daily", "weekly", "yearly"}

HintMetas ==
  {[path |-> q, title |-> <<Text("title")>>, language |-> <<>>,
    canonical |-> <<"H", "/", "a">>, jsonldOnPage |-> "absent",
    injectJsonLd |-> "absent", inGraph |-> "absent", priority |-> pr, changefreq |-> cf] :
     q \in {HomePath, Path(FALSE, "index.html"), Path(TRUE, "a.html")},
     pr \in Priorities, cf \in Changefreqs}

InitHints ==
  /\ callArg \in HintMetas
  /\ callEnv \in [files : {[f \in FileNames |-> AbsentFile],
                           [f \in FileNames |-> HtmlFile(PlainDocument)]},
                  now : {1}]
  /\ callOut = <<>>
  /\ callPc = "sitemapEntry"
  /\ IdleLocale /\ IdleUrl /\ IdlePage /\ IdleUi /\ IdleSite

SitemapEntry ==
  /\ callPc = "sitemapEntry"
  /\ callOut' = sitemapEntry(callArg, callEnv.files, callEnv.now)
  /\ callPc' = "returned"
  /\ UNCHANGED <<callArg, callEnv, locVars, urlVars, pgVars, uiVars, siteVars>>

NextHints == SitemapEntry

SpecHints == InitHints /\ [][NextHints]_vars

IsHome(pg) == pg.path = Path(TRUE, "index.html")
DefaultPriority(pg) == IF IsHome(pg) THEN <<"1", ".", "0">> ELSE <<"0", ".", "8">>
DefaultChangefreq(pg) == IF IsHome(pg) THEN {"weekly", "daily"} ELSE {"monthly"}

PageEvents == {"warn-not-found", "warn-unreadable", "injected"}

\* What the console of a run shows so far: one line per descriptor reached,
\* in registry order, then the sitemap's line, then at most robots.txt's.
OrderedLog ==
  pc \in {"pages", "robots", "done"} =>
    /\ \A i \in 1..Len(log) :
         IF i <= Len(pages)
         THEN log[i].ev \in PageEvents /\ log[i].path = pages[i].path
         ELSE IF i = Len(pages) + 1 THEN log[i].ev = "sitemap"
         ELSE log[i].ev = "robots" /\ i = Len(pages) + 2
    /\ pc = "pages" => Len(log) = idx - 1 /\ idx <= Len(pages) + 1
    /\ pc \in {"robots", "done"} => Len(log) > Len(pages)

\* Which step may write what: a page only while the registry is gone
\* through, the page at the index, the index then moving on by one; the
\* sitemap only past the last index; robots.txt only after the sitemap.
OrderedWrites ==
  /\ files' # files =>
       /\ pc = "pages" /\ pc' = "pages" /\ idx <= Len(pages) /\ idx' = idx + 1
       /\ \A f \in FileNames : f # relFromPublic(pages[idx].path) => files'[f] = files[f]
  /\ idx' # idx => (idx' = idx + 1 \/ pc' = "load")
  /\ sitemap' # sitemap => (pc = "pages" /\ idx > Len(pages) /\ pc' = "robots")
  /\ robots' # robots => (pc = "robots" /\ sitemap.written = run)

\* C15: within one run the pages are processed one after another in registry
\* order, the sitemap is emitted once, after the last page, robots.txt is
\* handled after the sitemap, and no page is written after the sitemap.
C15_RunOrdering == [] OrderedLog /\ [][OrderedWrites]_vars

\* A run over three descriptors that wrote three pages, then the sitemap,
\* then robots.txt.
C15_Witness ==
  /\ pc = "done" /\ Len(pages) = 3 /\ Len(log) = 5
  /\ \A i \in 1..3 : log[i].ev = "injected"
  /\ pages[1].path # pages[2].path /\ pages[2].path # pages[3].path
  /\ log[4].ev = "sitemap" /\ log[5].ev = "robots"

\* C16: when pages.json is absent or is not valid JSON the process aborts at
\* startup, and no HTML file, sitemap.xml or robots.txt is written or
\* changed, then or later.
C16_FailFast ==
  [][ /\ (pc = "load" /\ pagesJson.st # "valid") =>
            (pc' = "aborted" /\ UNCHANGED <<files, sitemap, robots>>)
      /\ pc = "aborted" => UNCHANGED <<files, sitemap, robots, pc>>
      /\ pc' = "aborted" => (pc = "load" /\ pagesJson.st # "valid") ]_vars

\* The process has aborted on a registry that is not JSON, next to pages
\* that exist and with no robots.txt: nothing was written.
C16_Witness ==
  /\ pc = "aborted" /\ run = 1 /\ pagesJson = InvalidJson
  /\ files["index.html"] = HtmlFile(PlainDocument)
  /\ sitemap = NoSitemap /\ robots = AbsentRobots

(***************************************************************************)
(* The run on registries that load but whose descriptors may lack the      *)
(* canonical, next to descriptors that lack a title or a language, have a  *)
(* malformed canonical or locale, or name a missing file.                  *)
(***************************************************************************)
LooseMeta(f, t, l, c) ==
  [path |-> Path(TRUE, f), title |-> t, language |-> l, canonical |-> c,
   jsonldOnPage |-> "absent", injectJsonLd |-> "absent", inGraph |-> "absent",
   priority |-> AbsentPriority, changefreq |-> "absent"]

LooseMetas ==
  { LooseMeta("index.html", <<Text("index.html")>>, <<>>, CanonicalOf("index.html")),
    LooseMeta("a.html", <<>>, <<>>, CanonicalOf("a.html")),
    LooseMeta("a.html", <<Text("a.html")>>, <<"_", "-">>, <<"a", "?", "a">>),
    LooseMeta("a.html", <<Text("a.html")>>, <<>>, Undefined),
    LooseMeta("b.html", <<Text("b.html")>>, <<>>, Undefined) }

LooseRegistries == UNION {[1..n -> LooseMetas] : n \in 1..MaxPages}

InitLoose ==
  /\ pagesJson \in {ValidJson(reg) : reg \in LooseRegistries}
  /\ InitFiles
  /\ InitRun

SpecLoose == InitLoose /\ [][Next]_vars

\* C17: on a registry that loads, no descriptor makes the run stop: whatever
\* it lacks or mis-states, the run goes on to the next descriptor and reaches
\* the sitemap and robots.txt.
C17_Original == pc # "crashed"

(***************************************************************************)
(* The page generator (enhanced-generator.js): generateHTML(pagePath,     *)
(* options), called twice with the same arguments while the clock and the  *)
(* random source move on.  A page path and a seed are character strings;   *)
(* a date is "fixed" (the constant of the deterministic mode) or the       *)
(* reading of the clock; the HTML is the record of everything in it that   *)
(* is not constant text.                                                   *)
(***************************************************************************)
MaxSeedLen == 2

Api == <<"a", "p", "i">>
Data == <<"d", "a", "t", "a">>
Constructor == <<"c", "o", "n", "s", "t", "r", "u", "c", "t", "o", "r">>
NonExistentPage == <<"n", "o", "n", "e">>

\* Object.keys(ENHANCED_PAGE_DEFINITIONS), and the names every object
\* literal inherits from Object.prototype.
PageKeys == {Api, Data}
InheritedNames == {Constructor}

\* ENHANCED_PAGE_DEFINITIONS[pagePath]: the definition, an inherited member
\* of Object.prototype (a function, so truthy, with no field of a page), or
\* undefined.
PageDefinition(pagePath) ==
  IF pagePath \in PageKeys THEN "definition"
  ELSE IF pagePath \in InheritedNames THEN "inherited"
  ELSE "undefined"

charCodeAt(c) ==
  CASE c = "-" -> 45 [] c = "a" -> 97 [] c = "b" -> 98 [] c = "c" -> 99
    [] c = "d" -> 100 [] c = "e" -> 101 [] c = "h" -> 104 [] c = "i" -> 105
    [] c = "m" -> 109 [] c = "n" -> 110 [] c = "o" -> 111 [] c = "p" -> 112
    [] c = "r" -> 114 [] c = "s" -> 115 [] c = "t" -> 116 [] c = "u" -> 117

RECURSIVE SumCodes(_)
SumCodes(s) == IF s = <<>> THEN 0 ELSE charCodeAt(Head(s)) + SumCodes(Tail(s))

\* The lists of CONFIG.contentVariations (each of this length in the model),
\* and the suffix generateDynamicContent gives the seed for each.
Variations == <<"first", "second">>
Draws == 1..4
SeedSuffix == << <<"-", "i", "n", "t", "r", "o">>,
                 <<"-", "m", "i", "s", "s", "i", "o", "n">>,
                 <<"-", "t", "e", "c", "h">>,
                 <<"-", "c", "o", "m", "m", "i", "t">> >>

FixedDate == [k |-> "fixed", t |-> 0]
getCurrentDate(deterministic, clock) ==
  IF deterministic THEN FixedDate ELSE [k |-> "now", t |-> clock]
getCurrentDateTime(deterministic, clock) ==
  IF deterministic THEN FixedDate ELSE [k |-> "now", t |-> clock]

\* A seed that is "" or missing is falsy.
Truthy(s) == s # <<>> /\ s # Undefined

\* Mutant of getRandomVariation: the seed is not looked at.
getRandomVariation_Unseeded(variations, seed, random) == variations[random + 1]

\* getRandomVariation(variations, seed): seed is null for a random pick,
\* which takes Math.floor(Math.random() * variations.length), here `random`.
getRandomVariation(variations, seed, random) ==
  IF Truthy(seed) THEN variations[(SumCodes(seed) % Len(variations)) + 1]
  ELSE variations[random + 1]

generateDynamicContent(seed, deterministic, env) ==
  LET isDeterministic == seed # Undefined \/ deterministic
      pick(d) == getRandomVariation(Variations,
                                    IF Truthy(seed) THEN seed \o SeedSuffix[d]
                                    ELSE Undefined,
                                    env.random[d])
  IN  [intro |-> pick(1), mission |-> pick(2), technology |-> pick(3),
       commitment |-> pick(4),
       lastUpdated |-> getCurrentDateTime(isDeterministic, env.clock),
       dateModified |-> getCurrentDate(isDeterministic, env.clock)]

updateHeaderMetadata(pagePath, deterministic, env) ==
  [page |-> pagePath,
   currentDate |-> getCurrentDateTime(deterministic, env.clock),
   structuredDataDate |-> getCurrentDate(deterministic, env.clock)]

Thrown(msg, reads) == [k |-> "error", msg |-> msg, html |-> <<>>, reads |-> reads]

\* generateHTML(pagePath, options) in the surroundings env: what it returns
\* or throws, and how many template files it has read by then.
generateHTML(pagePath, options, env) ==
  IF PageDefinition(pagePath) = "undefined"
  THEN Thrown("Page definition not found", 0)
  ELSE IF env.templates = "absent"
  THEN Thrown("Template files not found", 0)
  ELSE IF PageDefinition(pagePath) = "inherited"
  THEN \* updateHeaderMetadata -> generatePageStructuredData:
       \* pageData.breadcrumbs.map on undefined
       Thrown("Cannot read properties of undefined", 2)
  ELSE LET seed == IF Truthy(options.seed) THEN options.seed
                   ELSE IF options.deterministic THEN pagePath ELSE Undefined
       IN  [k |-> "html", msg |-> "",
            html |-> [header |-> updateHeaderMetadata(pagePath, options.deterministic, env),
                      main |-> generateDynamicContent(seed, options.deterministic, env),
                      generated |-> getCurrentDateTime(options.deterministic, env.clock),
                      seed |-> seed],
            reads |-> 2]

Seeds == Strs({"a", "b"}, MaxSeedLen) \cup {Undefined}
RandomSources == [Draws -> 0..(Len(Variations) - 1)]

InitGenerator ==
  /\ callArg \in [pagePath : PageKeys \cup InheritedNames \cup {NonExistentPage},
                  options : [deterministic : BOOLEAN, seed : Seeds]]
  /\ callEnv \in [templates : {"present", "absent"}, clock : {1},
                  random : RandomSources]
  /\ callOut = <<>>
  /\ callPc = "generateHTML"
  /\ IdleLocale /\ IdleUrl /\ IdlePage /\ IdleUi /\ IdleSite

\* One call of generateHTML; afterwards time has passed and Math.random
\* will give other numbers.
GenerateHTML ==
  /\ callPc = "generateHTML"
  /\ callOut' = Append(callOut, generateHTML(callArg.pagePath, callArg.options, callEnv))
  /\ callEnv' \in [templates : {callEnv.templates}, clock : {callEnv.clock + 1},
                   random : RandomSources]
  /\ callPc' = IF Len(callOut) = 0 THEN "generateHTML" ELSE "returned"
  /\ UNCHANGED <<callArg, locVars, urlVars, pgVars, uiVars, siteVars>>

NextGenerator == GenerateHTML

SpecGenerator == InitGenerator /\ [][NextGenerator]_vars

\* C18: two calls of generateHTML for a defined page with deterministic: true
\* and the same seed return the same string, whatever the clock and the
\* random source did in between.
C18_Deterministic ==
  (callPc = "returned" /\ callArg.pagePath \in PageKeys /\ callArg.options.deterministic)
    => callOut[1] = callOut[2]

\* Two deterministic calls with a seed, at different times, both returning
\* the same HTML, in which the seed picked different variations.
C18_Witness ==
  /\ callPc = "returned" /\ callArg.pagePath = Api
  /\ callArg.options.deterministic /\ callArg.options.seed = <<"a", "b">>
  /\ callEnv.clock = 3
  /\ callOut[1].k = "html" /\ callOut[2].k = "html"
  /\ callOut[1].html.main.intro # callOut[1].html.main.commitment
  /\ callOut[1].html.generated = FixedDate
  /\ callOut[1] = callOut[2]

\* C19: generateHTML called with a path that is not a key of the page
\* definitions throws an error that says "Page definition not found",
\* returns no HTML, and has read no template by then.
C19_Original ==
  \A i \in 1..Len(callOut) :
    (callPc \in {"generateHTML", "returned"} /\ callArg.pagePath \notin PageKeys)
      => /\ callOut[i].k = "error"
         /\ callOut[i].msg = "Page definition not found"
         /\ callOut[i].reads = 0

(***************************************************************************)
(* The run that may be killed while it goes through the registry.          *)
(***************************************************************************)
NextInterrupted ==
  LoadRegistry \/ RunProcessPage \/ BuildSitemap \/ EnsureRobots \/ Rerun \/ Interrupt

SpecInterrupted == Init /\ [][NextInterrupted]_vars

\* The files after processPage on the first n descriptors of reg, in order,
\* starting from the files fs.
RECURSIVE AfterPages(_, _, _)
AfterPages(reg, n, fs) ==
  IF n = 0 THEN fs
  ELSE LET prev == AfterPages(reg, n - 1, fs)
           rel == relFromPublic(reg[n].path)
       IN  IF prev[rel].st = "ok"
           THEN [prev EXCEPT ![rel].html = processedHtml(reg[n], prev[rel].html, reg)]
           ELSE prev

\* C20: after a run that was interrupted once some prefix of the registry
\* had been written, a complete run leaves every HTML file as one complete
\* run on the original files would have left it.
C20_Original ==
  (pc = "done" /\ recovering) =>
    \A f \in FileNames :
      /\ files[f].st = original[f].st
      /\ files[f].html = AfterPages(pages, Len(pages), original)[f].html

\* C21: the step that processes one descriptor changes no file but the one
\* at that descriptor's path, which it read; a descriptor whose file is
\* missing has no file created or changed.
C21_FileFrame ==
  [][ files' # files =>
        /\ pc = "pages" /\ idx <= Len(pages)
        /\ LET rel == pages[idx].path.rel IN
           /\ files[rel].st = "ok"
           /\ files'[rel].st = "ok"
           /\ \A f \in FileNames : f # rel => files'[f] = files[f] ]_vars

\* Past a first descriptor whose file was written and a second whose file is
\* missing, with a third file that no step has touched.
C21_Witness ==
  /\ pc = "pages" /\ run = 1 /\ idx = 3
  /\ log[1].ev = "injected" /\ log[2].ev = "warn-not-found"
  /\ files[pages[1].path.rel].mtime = 1
  /\ files[pages[2].path.rel].st = "absent"
  /\ \E f \in FileNames : f # pages[1].path.rel /\ files[f] = HtmlFile(PlainDocument)

\* A document holds exactly one begin marker and one end marker of a kind,
\* the begin marker first.
OnePair(html, begin, end) ==
  /\ Cardinality({i \in 1..Len(html) : html[i] = begin}) = 1
  /\ Cardinality({i \in 1..Len(html) : html[i] = end}) = 1
  /\ MarkerMatch(html, begin, end).from # 0

\* Two stretches of a document that differ at most in the lang attribute of
\* an <html> tag (its value, its quotes, or its being there).
SameButLang(s, t) ==
  /\ Len(s) = Len(t)
  /\ \A i \in 1..Len(s) :
       \/ s[i] = t[i]
       \/ /\ s[i].k = "html" /\ t[i].k = "html"
          /\ SelectSeq(s[i].p, NotLang) = SelectSeq(t[i].p, NotLang)

\* after is before with the stretches from..to of `first` and of `second`
\* replaced by something, and nothing else changed but the lang attribute.
OnlyRegionsChanged(before, after, first, second) ==
  LET pre == SubSeq(before, 1, first.from - 1)
      mid == SubSeq(before, first.to + 1, second.from - 1)
      suf == SubSeq(before, second.to + 1, Len(before))
  IN  /\ Len(after) >= Len(pre) + Len(mid) + Len(suf)
      /\ SameButLang(SubSeq(after, 1, Len(pre)), pre)
      /\ SameButLang(SubSeq(after, Len(after) - Len(suf) + 1, Len(after)), suf)
      /\ \E a \in Len(pre)..(Len(after) - Len(suf) - Len(mid)) :
           SameButLang(SubSeq(after, a + 1, a + Len(mid)), mid)

\* C22: on a document with one HEAD POLICY marker pair (and one JSON-LD
\* PUBLISHER pair when the page wants JSON-LD), processPage changes only
\* what lies between and including the markers and the lang attribute of
\* the <html> tag, whatever the descriptor holds.
C22_Original ==
  ( /\ Len(pgTrace) >= 2
    /\ OnePair(pgTrace[1], BeginHead, EndHead)
    /\ InclusionRule(pgMeta) => OnePair(pgTrace[1], BeginJsonLd, EndJsonLd) )
  => LET head == MarkerMatch(pgTrace[1], BeginHead, EndHead)
         graph == MarkerMatch(pgTrace[1], BeginJsonLd, EndJsonLd)
     IN  IF ~ InclusionRule(pgMeta)
         THEN OnlyRegionsChanged(pgTrace[1], pgTrace[2], head,
                                 [from |-> head.to + 1, to |-> head.to])
         ELSE IF head.from < graph.from
         THEN OnlyRegionsChanged(pgTrace[1], pgTrace[2], head, graph)
         ELSE OnlyRegionsChanged(pgTrace[1], pgTrace[2], graph, head)


Markers == {BeginHead, EndHead, BeginJsonLd, EndJsonLd}

\* A document with an opening <head> tag, a </head> tag and no markers.
MarkerFree(html) ==
  /\ FirstKind(html, "head") # 0
  /\ FirstKind(html, "/head") # 0
  /\ \A i \in 1..Len(html) : html[i] \notin Markers

\* C23: starting from a document with <head>, </head> and no markers, after
\* every run the document holds exactly one HEAD POLICY marker pair and, for
\* a page that wants JSON-LD, exactly one JSON-LD PUBLISHER marker pair,
\* whatever the descriptor holds.
C23_Original ==
  MarkerFree(pgTrace[1]) =>
    \A n \in 2..Len(pgTrace) :
      /\ OnePair(pgTrace[n], BeginHead, EndHead)
      /\ InclusionRule(pgMeta) => OnePair(pgTrace[n], BeginJsonLd, EndJsonLd)


(***************************************************************************)
(* Runs over files that hold a begin marker without its end marker.         *)
(***************************************************************************)
DanglingHeadDocument ==
  <<HtmlTag(<<>>), Tok("head"), BeginHead, OldHead, Tok("/head"), Text("body")>>
DanglingGraphDocument ==
  <<HtmlTag(<<Attr("lang", "dq", En)>>), Tok("head"), BeginJsonLd, OldGraph,
    Tok("/head"), Text("body")>>
DanglingBothDocument ==
  <<Tok("head"), BeginHead, OldHead, BeginJsonLd, OldGraph, Text("body")>>

DanglingFiles(f) ==
  CASE f = "index.html" -> {HtmlFile(DanglingHeadDocument), HtmlFile(DanglingGraphDocument)}
    [] f = "a.html" -> {AbsentFile, HtmlFile(DanglingHeadDocument),
                        HtmlFile(DanglingGraphDocument), HtmlFile(DanglingBothDocument)}
    [] OTHER -> {HtmlFile(PlainDocument), HtmlFile(DanglingGraphDocument)}

DanglingMetas ==
  { SiteMeta("index.html", "absent"), SiteMeta("a.html", "absent"),
    [SiteMeta("a.html", "T") EXCEPT !.title = <<Text("title"), Tok("$&")>>],
    SiteMeta("b.html", "T") }

DanglingRegistries == UNION {[1..n -> DanglingMetas] : n \in 1..MaxPages}

InitDangling ==
  /\ pagesJson \in {ValidJson(reg) : reg \in DanglingRegistries}
  /\ files \in {fs \in [FileNames -> UNION {DanglingFiles(f) : f \in FileNames}] :
                  \A f \in FileNames : fs[f] \in DanglingFiles(f)}
  /\ original = files
  /\ recovering = FALSE
  /\ sitemap = NoSitemap
  /\ robots \in {AbsentRobots, CustomRobots}
  /\ InitRun

SpecDangling == InitDangling /\ [][Next]_vars

\* The begin marker is there and no end marker follows it.
Dangling(html, begin, end) ==
  includes(html, begin) /\ MarkerMatch(html, begin, end).from = 0

CountOf(html, tok) == Cardinality({i \in 1..Len(html) : html[i] = tok})

\* The stretch a dangling begin marker opens: from the marker up to the next
\* marker of any kind, the </head> tag or the end of the document.
DanglingStretch(html, begin) ==
  LET b == FirstIn(html, {begin})
      stops == {i \in (b + 1)..Len(html) : html[i] \in Markers \cup {Tok("/head")}}
      e == IF stops = {} THEN Len(html)
           ELSE CHOOSE i \in stops : \A j \in stops : i <= j
  IN  SubSeq(html, b, e - (IF stops = {} THEN 0 ELSE 1))

\* No block of the kind was put in or replaced: the document has the markers
\* of the kind it had, and the stretch after the begin marker is still there.
BlockLeftOut(before, after, begin, end) ==
  /\ CountOf(after, begin) = CountOf(before, begin)
  /\ CountOf(after, end) = CountOf(before, end)
  /\ Contains(after, DanglingStretch(before, begin))

WrittenAndReported(meta) ==
  /\ files'[meta.path.rel].st = "ok"
  /\ files'[meta.path.rel].mtime = run
  /\ log' = Append(log, [ev |-> "injected", path |-> meta.path])

\* C24: when the file holds BEGIN HEAD POLICY with no END HEAD POLICY after
\* it, processPage puts in no head block and replaces none, and still
\* writes the file and logs the page as injected; the same for BEGIN JSON-LD
\* PUBLISHER without its END marker on a page that wants JSON-LD.
C24_DanglingMarker ==
  [][ (pc = "pages" /\ idx <= Len(pages) /\ files[pages[idx].path.rel].st = "ok") =>
        LET meta == pages[idx]
            before == files[meta.path.rel].html
            after == files'[meta.path.rel].html
        IN  /\ Dangling(before, BeginHead, EndHead) =>
                 /\ BlockLeftOut(before, after, BeginHead, EndHead)
                 /\ WrittenAndReported(meta)
            /\ (Dangling(before, BeginJsonLd, EndJsonLd) /\ InclusionRule(meta)) =>
                 /\ BlockLeftOut(before, after, BeginJsonLd, EndJsonLd)
                 /\ WrittenAndReported(meta) ]_vars

C24_Witness ==
  /\ pc = "done" /\ run = 2
  /\ original["a.html"] # AbsentFile
  /\ \E i \in 1..Len(pages) : pages[i].path.rel = "a.html" /\ InclusionRule(pages[i])
  /\ \E i \in 1..Len(log) : log[i] = [ev |-> "injected", path |-> Path(TRUE, "a.html")]
  /\ files["a.html"].mtime = 2
  /\ Dangling(files["a.html"].html, BeginHead, EndHead)
  /\ Dangling(files["a.html"].html, BeginJsonLd, EndJsonLd)
  /\ ~ includes(files["a.html"].html, Tok("Organization"))


(***************************************************************************)
(* Runs of processPage with pages.json edited in between: a page that had   *)
(* opted in to JSON-LD has both flags taken back.                           *)
(***************************************************************************)
OptOut ==
  /\ Len(pgTrace) >= 2
  /\ pgMeta.path # HomePath
  /\ wantsJsonLd(pgMeta)
  /\ \E j \in {"F", "absent", "str"}, i \in {"absent", "str"} :
       pgMeta' = [pgMeta EXCEPT !.jsonldOnPage = j, !.injectJsonLd = i]
  /\ pgPages' = <<pgMeta'>>
  /\ UNCHANGED <<pgTrace, locVars, urlVars, siteVars, callVars, uiVars>>

NextOptOut == ProcessPage \/ OptOut

SpecOptOut == InitPage /\ [][NextOptOut]_vars

\* The text from the first BEGIN JSON-LD PUBLISHER marker to the last END
\* marker, empty when there is no block.
JsonLdSpan(html) ==
  LET b == FirstIn(html, {BeginJsonLd})
      ends == {i \in 1..Len(html) : html[i] = EndJsonLd /\ i > b}
  IN  IF b = 0 \/ ends = {} THEN <<>>
      ELSE SubSeq(html, b, CHOOSE i \in ends : \A j \in ends : j <= i)

MaxClicks == 8

StoredModes == {"absent", "light", "dark", "system", "other"}

calcTheme(mode, matches) ==
  IF mode \in {"light", "dark"} THEN mode
  ELSE IF matches THEN "dark" ELSE "light"

\* updateToggleLabel: the value it gives btn.dataset.next, which stays as it
\* is when there is no button.
updateToggleLabel(btn, next, mode) ==
  IF btn = "none" THEN next
  ELSE IF mode = "light" THEN "dark"
  ELSE IF mode = "dark" THEN "system"
  ELSE "light"

\* localStorage.getItem(STORAGE_KEY) || 'system'
savedMode(stored) == IF stored = "absent" THEN "system" ELSE stored

applyTheme(t, mode) ==
  [t EXCEPT !.dataTheme = calcTheme(mode, t.matches),
            !.next = updateToggleLabel(t.btn, t.next, mode)]

InitTheme ==
  /\ theme \in [stored : StoredModes, dataTheme : {"unset"}, matches : BOOLEAN,
                markup : BOOLEAN, btn : {"none"}, next : {"unset"},
                ready : {FALSE}, clicks : {0}]
  /\ theme.btn = "none"
  /\ dropdowns = <<>> /\ auth = <<>>
  /\ IdleLocale /\ IdleUrl /\ IdlePage /\ IdleSite /\ IdleCall

\* init: the saved mode is applied, with the page's own button if it has
\* one; only then is the floating button made when there was none.
init ==
  /\ ~ theme.ready
  /\ LET found == IF theme.markup THEN "page" ELSE "none"
         applied == applyTheme([theme EXCEPT !.btn = found], savedMode(theme.stored))
     IN  theme' = [applied EXCEPT !.btn = IF found = "page" THEN "page" ELSE "floating",
                                  !.ready = TRUE]
  /\ UNCHANGED <<dropdowns, auth, locVars, urlVars, pgVars, siteVars, callVars>>

\* onToggleClick: btn?.dataset.next || 'system' is stored and applied.
onToggleClick ==
  /\ theme.ready
  /\ theme.clicks < MaxClicks
  /\ LET next == IF theme.next = "unset" THEN "system" ELSE theme.next IN
     theme' = applyTheme([theme EXCEPT !.stored = next, !.clicks = @ + 1], next)
  /\ UNCHANGED <<dropdowns, auth, locVars, urlVars, pgVars, siteVars, callVars>>

\* Mutant of PrefersDarkChange: the change listener does nothing.
PrefersDarkChange_Ignored ==
  /\ theme' = [theme EXCEPT !.matches = ~ @]
  /\ UNCHANGED <<dropdowns, auth, locVars, urlVars, pgVars, siteVars, callVars>>

\* The OS colour scheme changes; the listener init registered re-applies
\* the theme when the saved mode is 'system'.
PrefersDarkChange ==
  /\ LET t == [theme EXCEPT !.matches = ~ @] IN
     theme' = IF theme.ready /\ savedMode(theme.stored) = "system"
              THEN applyTheme(t, "system")
              ELSE t
  /\ UNCHANGED <<dropdowns, auth, locVars, urlVars, pgVars, siteVars, callVars>>

\* The page is loaded again: localStorage and the OS preference stay.
ReloadPage ==
  /\ theme.ready
  /\ theme' = [theme EXCEPT !.dataTheme = "unset", !.btn = "none", !.next = "unset",
                            !.ready = FALSE, !.clicks = 0]
  /\ UNCHANGED <<dropdowns, auth, locVars, urlVars, pgVars, siteVars, callVars>>

NextTheme == init \/ onToggleClick \/ PrefersDarkChange \/ ReloadPage

SpecTheme == InitTheme /\ [][NextTheme]_vars

\* light -> dark -> system -> light; no stored mode counts as system.
CycleNext(stored) ==
  CASE stored = "light" -> "dark"
    [] stored = "dark" -> "system"
    [] OTHER -> "light"

\* C26 (as claimed): every click on the toggle, the first one after the
\* page load included, stores under dp_theme the mode that follows the
\* stored one in light -> dark -> system -> light, for the page's own button
\* and for the floating one.
C26_Original ==
  [][ (theme.ready /\ theme'.clicks = theme.clicks + 1 /\ theme.stored # "other")
        => theme'.stored = CycleNext(theme.stored) ]_vars


\* C27: once init has run, and after any clicks and OS colour-scheme
\* changes, data-theme is 'light' or 'dark', is the stored mode when that is
\* light or dark, and is the OS preference when the stored mode is system or
\* not set; an OS preference change alters data-theme only while the mode is
\* system.
C27_ThemeResolution ==
  /\ [] ( theme.ready =>
            /\ theme.dataTheme \in {"light", "dark"}
            /\ theme.stored \in {"light", "dark"} => theme.dataTheme = theme.stored
            /\ theme.stored \in {"system", "absent"} =>
                 theme.dataTheme = (IF theme.matches THEN "dark" ELSE "light") )
  /\ [][ (theme'.matches # theme.matches /\ theme'.dataTheme # theme.dataTheme)
           => theme.stored \in {"system", "absent"} ]_vars

C27_Witness ==
  /\ theme.ready /\ theme.clicks >= 2
  /\ theme.btn = "floating"
  /\ theme.stored = "system" /\ theme.next = "light"
  /\ theme.matches /\ theme.dataTheme = "dark"


(***************************************************************************)
(* dropdown.js.  `dropdowns` holds, for each [data-dropdown] element, the   *)
(* hidden property of its menu and the aria-expanded attribute of its       *)
(* button, and the element that has the focus: the body, a button, or a    *)
(* menu item.  Every dropdown has its button and its menu, and the page     *)
(* starts with every menu hidden.                                           *)
(***************************************************************************)
NumDropdowns == 4
NumItems == 3

Dropdowns == 1..NumDropdowns
Body == [el |-> "body", dd |-> 0, item |-> 0]
Button(d) == [el |-> "button", dd |-> d, item |-> 0]
Item(d, i) == [el |-> "menuitem", dd |-> d, item |-> i]

open(dd) == [dd EXCEPT !.hidden = FALSE, !.expanded = "true"]
close(dd) == [dd EXCEPT !.hidden = TRUE, !.expanded = "false"]
isOpen(dd) == ~ dd.hidden

\* The loops that close the dropdowns other than those in `keep`.
closeOthers(menus, keep) ==
  [d \in Dropdowns |-> IF d \notin keep /\ ~ menus[d].hidden THEN close(menus[d])
                        ELSE menus[d]]

InitDropdowns ==
  /\ dropdowns = [menus |-> [d \in Dropdowns |-> [hidden |-> TRUE, expanded |-> "false"]],
                  focus |-> Body]
  /\ theme = <<>> /\ auth = <<>>
  /\ IdleLocale /\ IdleUrl /\ IdlePage /\ IdleSite /\ IdleCall

\* A click on the button of dropdown d: its own handler, then the document's
\* click handler the event bubbles to.
ClickButton ==
  /\ \E d \in Dropdowns :
       LET wasOpen == isOpen(dropdowns.menus[d])
           toggled == [dropdowns.menus EXCEPT
                         ![d] = IF wasOpen THEN close(@) ELSE open(@)]
       IN  dropdowns' = [menus |-> closeOthers(closeOthers(toggled, {d}), {d}),
                         focus |-> IF wasOpen THEN Button(d) ELSE Item(d, 1)]
  /\ UNCHANGED <<theme, auth, locVars, urlVars, pgVars, siteVars, callVars>>

\* A key pressed while the button of dropdown d has the focus.
KeydownButton ==
  /\ \E d \in Dropdowns, key \in {"ArrowDown", "ArrowUp", "Escape"} :
       /\ dropdowns.focus = Button(d)
       /\ dropdowns' =
            IF key = "Escape"
            THEN [menus |-> [dropdowns.menus EXCEPT ![d] = close(@)],
                  focus |-> Button(d)]
            ELSE [menus |-> [dropdowns.menus EXCEPT
                               ![d] = IF isOpen(@) THEN @ ELSE open(@)],
                  focus |-> Item(d, IF key = "ArrowDown" THEN 1 ELSE NumItems)]
  /\ UNCHANGED <<theme, auth, locVars, urlVars, pgVars, siteVars, callVars>>

\* A key pressed while an item of the menu of dropdown d has the focus.
KeydownMenu ==
  /\ \E d \in Dropdowns, key \in {"ArrowDown", "ArrowUp", "Escape"} :
       /\ dropdowns.focus.el = "menuitem" /\ dropdowns.focus.dd = d
       /\ LET currentIndex == dropdowns.focus.item IN
          dropdowns' =
            CASE key = "Escape" ->
                   [menus |-> [dropdowns.menus EXCEPT ![d] = close(@)],
                    focus |-> Button(d)]
              [] key = "ArrowDown" ->
                   [dropdowns EXCEPT !.focus =
                      Item(d, IF currentIndex + 1 <= NumItems THEN currentIndex + 1 ELSE 1)]
              [] OTHER ->
                   [dropdowns EXCEPT !.focus =
                      Item(d, IF currentIndex - 1 >= 1 THEN currentIndex - 1 ELSE NumItems)]
  /\ UNCHANGED <<theme, auth, locVars, urlVars, pgVars, siteVars, callVars>>

\* A click outside every dropdown.
ClickOutside ==
  /\ dropdowns' = [menus |-> closeOthers(dropdowns.menus, {}), focus |-> Body]
  /\ UNCHANGED <<theme, auth, locVars, urlVars, pgVars, siteVars, callVars>>

\* The Tab key moves the focus to a button, or to an item of a menu that is
\* shown; no handler of the module runs.
MoveFocus ==
  /\ \E d \in Dropdowns, i \in 0..NumItems :
       /\ i # 0 => isOpen(dropdowns.menus[d])
       /\ dropdowns' = [dropdowns EXCEPT !.focus = IF i = 0 THEN Button(d) ELSE Item(d, i)]
       /\ dropdowns' # dropdowns
  /\ UNCHANGED <<theme, auth, locVars, urlVars, pgVars, siteVars, callVars>>

NextDropdowns == ClickButton \/ KeydownButton \/ KeydownMenu \/ ClickOutside \/ MoveFocus

SpecDropdowns == InitDropdowns /\ [][NextDropdowns]_vars

OpenMenus == {d \in Dropdowns : ~ dropdowns.menus[d].hidden}

AriaMatchesHidden ==
  \A d \in Dropdowns :
    (dropdowns.menus[d].expanded = "true") <=> ~ dropdowns.menus[d].hidden

\* C28 (as claimed): after any button clicks, key presses on a button or in
\* a menu, and outside clicks, at most one menu is shown, and each button's
\* aria-expanded is 'true' exactly when its menu is not hidden.
C28_Original == Cardinality(OpenMenus) <= 1 /\ AriaMatchesHidden


(***************************************************************************)
(* authorize.js.  `auth` holds AuthManager.user ("null" or a user),         *)
(* localStorage's digestpaper_auth ("absent", a user, or "invalid" for text *)
(* that is not JSON), the display of the login modal, the click listeners   *)
(* of #loginButton in the order they were added, whether setupAuth has run, *)
(* and what the last event did: its kind, the user at its start, whether    *)
(* the modal was opened and how many userLoggedOut events were dispatched.  *)
(* Every listener is an arrow function made where it is added, so the       *)
(* removeEventListener calls of updateUI, which pass this.showLoginModal    *)
(* and this.logout, remove nothing.                                         *)
(***************************************************************************)
MaxListeners == 12

Users == {"u1", "u2"}

NoEvent == [ev |-> "none", user |-> "null", shown |-> FALSE, loggedOut |-> 0]

showLoginModal(a) == [a EXCEPT !.modal = "flex", !.last.shown = TRUE]
hideLoginModal(a) == [a EXCEPT !.modal = "none"]

updateUI(a) ==
  [a EXCEPT !.listeners =
     Append(@, IF a.user # "null" THEN "logout" ELSE "showLoginModal")]

saveAuthState(a) == IF a.user # "null" THEN [a EXCEPT !.stored = a.user] ELSE a
clearAuthState(a) == [a EXCEPT !.stored = "absent"]

onLoginSuccess(a, userData) ==
  saveAuthState(updateUI(hideLoginModal([a EXCEPT !.user = userData])))

logout(a) ==
  [clearAuthState(updateUI([a EXCEPT !.user = "null"]))
     EXCEPT !.last.loggedOut = @ + 1]

checkAuthState(a) ==
  IF a.stored \in Users THEN updateUI([a EXCEPT !.user = a.stored])
  ELSE IF a.stored = "invalid" THEN clearAuthState(a)
  ELSE a

\* The click event runs the listeners that were there when it was dispatched.
RECURSIVE dispatchClick(_, _)
dispatchClick(a, listeners) ==
  IF listeners = <<>> THEN a
  ELSE dispatchClick(IF Head(listeners) = "logout" THEN logout(a) ELSE showLoginModal(a),
                     Tail(listeners))

InitAuth ==
  /\ auth \in [user : {"null"}, stored : Users \cup {"absent", "invalid"},
               modal : {"none"}, listeners : {<<>>}, ready : {FALSE}, last : {NoEvent}]
  /\ theme = <<>> /\ dropdowns = <<>>
  /\ IdleLocale /\ IdleUrl /\ IdlePage /\ IdleSite /\ IdleCall

\* new AuthManager() on a page with #loginButton and #auth-modal.
setupAuth ==
  /\ ~ auth.ready
  /\ auth' = [checkAuthState([auth EXCEPT !.listeners = <<"showLoginModal">>,
                                          !.last = [NoEvent EXCEPT !.ev = "load"]])
                EXCEPT !.ready = TRUE]
  /\ UNCHANGED <<theme, dropdowns, locVars, urlVars, pgVars, siteVars, callVars>>

\* A click on #loginButton while the modal does not cover it.
ClickLoginButton ==
  /\ auth.ready /\ auth.modal = "none"
  /\ Len(auth.listeners) + Len(SelectSeq(auth.listeners, LAMBDA l : l = "logout"))
       <= MaxListeners
  /\ auth' = dispatchClick([auth EXCEPT !.last = [NoEvent EXCEPT !.ev = "click",
                                                                !.user = auth.user]],
                           auth.listeners)
  /\ UNCHANGED <<theme, dropdowns, locVars, urlVars, pgVars, siteVars, callVars>>

\* handleLogin or handleRegister succeeds for the form in the open modal.
LoginSucceeds ==
  /\ auth.ready /\ auth.modal = "flex"
  /\ Len(auth.listeners) < MaxListeners
  /\ \E u \in Users :
       auth' = onLoginSuccess([auth EXCEPT !.last = [NoEvent EXCEPT !.ev = "login",
                                                                    !.user = auth.user]], u)
  /\ UNCHANGED <<theme, dropdowns, locVars, urlVars, pgVars, siteVars, callVars>>

\* The modal is closed with its X or by a click on its backdrop.
CloseModal ==
  /\ auth.ready /\ auth.modal = "flex"
  /\ auth' = hideLoginModal([auth EXCEPT !.last = [NoEvent EXCEPT !.ev = "close",
                                                                  !.user = auth.user]])
  /\ UNCHANGED <<theme, dropdowns, locVars, urlVars, pgVars, siteVars, callVars>>

\* The page is loaded again: only localStorage stays.
ReloadAuthPage ==
  /\ auth.ready
  /\ auth' = [user |-> "null", stored |-> auth.stored, modal |-> "none",
              listeners |-> <<>>, ready |-> FALSE, last |-> NoEvent]
  /\ UNCHANGED <<theme, dropdowns, locVars, urlVars, pgVars, siteVars, callVars>>

NextAuth == setupAuth \/ ClickLoginButton \/ LoginSucceeds \/ CloseModal \/ ReloadAuthPage

SpecAuth == InitAuth /\ [][NextAuth]_vars

\* C29 (as claimed): after any logins, logouts and restores at page load, a
\* click on the login button with no user logged in only opens the modal,
\* and a click with a user logged in only logs out (user cleared,
\* digestpaper_auth removed, one userLoggedOut event) and does not open the
\* modal.
C29_Original ==
  auth.last.ev = "click" =>
    IF auth.last.user = "null"
    THEN auth.modal = "flex" /\ auth.last.loggedOut = 0 /\ auth.user = "null"
    ELSE /\ auth.user = "null" /\ auth.stored = "absent"
         /\ auth.last.loggedOut = 1
         /\ auth.modal = "none"

====
